---- MODULE Spec2Model ----
(***************************************************************************)
(* Traceable Context Engine: PDF text extraction with positional tags,     *)
(* LLM compression / Q&A with retry on rate limiting, response parsing and *)
(* citation display (app.py: Streamlit dashboard, server.py: Flask API).   *)
(*                                                                         *)
(* Text is modelled as a sequence of one-character strings, so that        *)
(* trimming, tag formatting, substring tests, the fence-stripping regular  *)
(* expression and JSON parsing are computed character by character.        *)
(***************************************************************************)
EXTENDS Integers, Sequences, FiniteSets, TLC

VARIABLES
    doc,           \* extraction harness: the document handed to extract_and_tag_pdf
    extraction,    \* extraction harness: what extract_and_tag_pdf returned (or NoValue)
    invocation,    \* LLM harness: the last call of an LLM-calling function or
                   \* request handler, with its result and its trace of
                   \* generate_content calls, sleeps and notifications
    user_api_key,  \* dashboard: the key typed into the sidebar ("" when empty)
    uploaded_file, \* dashboard: the value of the file uploader
    session_state, \* dashboard: st.session_state, a dict from key to value
    screen,        \* dashboard: what the last script run rendered
    response_text, \* dashboard: what summarize_with_gemini returned to the last
                   \* script run (None when the run made no compression)
    summary_source \* dashboard, history: the text given to the
                   \* summarize_with_gemini call whose reply was last stored
                   \* as json_summary (None before any was stored)

vars == <<doc, extraction, invocation, user_api_key, uploaded_file, session_state,
          screen, response_text, summary_source>>

harness_vars == <<doc, extraction, invocation>>
dashboard_vars ==
    <<user_api_key, uploaded_file, session_state, screen, response_text, summary_source>>

\* "not yet computed" in the harnesses
NoValue == [none |-> TRUE]

\* request.files['file'] / st.file_uploader: nothing sent
NoFile == [present |-> FALSE]

\* what a script run renders when the main block is skipped (571-574)
BlankScreen ==
    [crashed |-> FALSE, notes |-> <<>>, points |-> <<>>,
     execute_button |-> FALSE, chat_input |-> FALSE]

\* the dashboard after its first script run: no key, no file (390-391)
DashboardIdle ==
    /\ user_api_key = ""
    /\ uploaded_file = NoFile
    /\ session_state = [qa_history |-> <<>>]
    /\ screen = BlankScreen
    /\ response_text = [t |-> "None"]
    /\ summary_source = [t |-> "None"]

(***************************************************************************)
(* Bounds of the model                                                     *)
(***************************************************************************)
\* pages in a document
MaxPages == 2
\* blocks in a document, over all its pages
MaxBlocks == 3

(***************************************************************************)
(* Character-level helpers                                                 *)
(***************************************************************************)
\* the characters str.strip() removes (those of them the model's texts use)
Whitespace == {" ", "\n", "\t"}

RECURSIVE LStrip(_)
LStrip(s) ==
    IF s # <<>> /\ Head(s) \in Whitespace THEN LStrip(Tail(s)) ELSE s

RECURSIVE RStrip(_)
RStrip(s) ==
    IF s # <<>> /\ s[Len(s)] \in Whitespace
    THEN RStrip(SubSeq(s, 1, Len(s) - 1))
    ELSE s

\* str.strip()
Strip(s) == RStrip(LStrip(s))

DigitChars == <<"0", "1", "2", "3", "4", "5", "6", "7", "8", "9">>

\* f"{n}" for a non-negative integer: decimal, no padding
RECURSIVE Dec(_)
Dec(n) ==
    IF n < 10
    THEN <<DigitChars[n + 1]>>
    ELSE Dec(n \div 10) \o <<DigitChars[(n % 10) + 1]>>

(***************************************************************************)
(* Documents as PyMuPDF reports them: a sequence of pages, each a sequence *)
(* of blocks (x0, y0, x1, y1, text, block_no, block_type); the model keeps *)
(* block[4] (text) and block[6] (block_type, 0 = text).                    *)
(***************************************************************************)
ImageBlock == [text |-> <<"<", "i", ">">>, block_type |-> 1]
BlankBlock == [text |-> <<" ", "\n">>, block_type |-> 0]
AlphaBlock == [text |-> <<" ", "A", "\n">>, block_type |-> 0]
BetaBlock  == [text |-> <<"B">>, block_type |-> 0]

Blocks == {ImageBlock, BlankBlock, AlphaBlock, BetaBlock}

SeqsUpTo(S, n) == UNION {[1..k -> S] : k \in 0..n}

\* the documents of exactly n pages holding at most k blocks in all
RECURSIVE DocsOf(_, _)
DocsOf(n, k) ==
    IF n = 0
    THEN {<<>>}
    ELSE UNION {{<<page>> \o rest : rest \in DocsOf(n - 1, k - Len(page))} :
                page \in SeqsUpTo(Blocks, k)}

Docs == UNION {DocsOf(n, MaxBlocks) : n \in 0..MaxPages}

(***************************************************************************)
(* extract_and_tag_pdf (app.py 17-47, server.py 26-47)                     *)
(***************************************************************************)
EmptyMap == [k \in {} |-> <<>>]

\* dict assignment d[k] = v
DictSet(d, k, v) == [x \in (DOMAIN d) \cup {k} |-> IF x = k THEN v ELSE d[x]]

\* a tag that leaves the page number out
TagNoPage(p_num, i) == <<"[", "[", "P">> \o Dec(i) \o <<"]", "]">>

\* a tag that counts the blocks of a page from one
TagOneBasedIndex(p_num, i) ==
    <<"[", "[", "P">> \o Dec(p_num) \o <<"_">> \o Dec(i + 1) \o <<"]", "]">>

\* tag = f"[[P{p_num}_{i}]]"
Tag(p_num, i) ==
    <<"[", "[", "P">> \o Dec(p_num) \o <<"_">> \o Dec(i) \o <<"]", "]">>

\* f"{tag} {text}\n\n"
TaggedEntry(tag, text) == tag \o <<" ">> \o text \o <<"\n", "\n">>

\* one iteration of the block loop that stores the untrimmed text in the map
TagBlockRaw(acc, p_num, i, block) ==
    IF block.block_type = 0 /\ Strip(block.text) # <<>>
    THEN [tagged_text |-> acc.tagged_text
                          \o TaggedEntry(Tag(p_num, i), Strip(block.text)),
          source_map  |-> DictSet(acc.source_map, Tag(p_num, i), block.text),
          minted      |-> Append(acc.minted,
                                 [tag |-> Tag(p_num, i), text |-> Strip(block.text),
                                  page |-> p_num, index |-> i])]
    ELSE acc

\* one iteration of "for i, block in enumerate(blocks)"; minted records what
\* lines 42-45 wrote, in order
TagBlock(acc, p_num, i, block) ==
    IF block.block_type = 0
    THEN LET text == Strip(block.text) IN
         IF text # <<>>
         THEN LET tag == Tag(p_num, i) IN
              [tagged_text |-> acc.tagged_text \o TaggedEntry(tag, text),
               source_map  |-> DictSet(acc.source_map, tag, text),
               minted      |-> Append(acc.minted,
                                      [tag |-> tag, text |-> text,
                                       page |-> p_num, index |-> i])]
         ELSE acc
    ELSE acc

\* the inner loop over the blocks of one page, from index i on
RECURSIVE TagBlocksFrom(_, _, _, _)
TagBlocksFrom(acc, p_num, blocks, i) ==
    IF i >= Len(blocks)
    THEN acc
    ELSE TagBlocksFrom(TagBlock(acc, p_num, i, blocks[i + 1]), p_num, blocks, i + 1)

\* the outer loop "for page_num, page in enumerate(doc)", from page_num on
RECURSIVE TagPagesFrom(_, _, _)
TagPagesFrom(acc, d, page_num) ==
    IF page_num >= Len(d)
    THEN acc
    ELSE TagPagesFrom(TagBlocksFrom(acc, page_num + 1, d[page_num + 1], 0),
                      d, page_num + 1)

extract_and_tag_pdf(d) ==
    TagPagesFrom([tagged_text |-> <<>>, source_map |-> EmptyMap, minted |-> <<>>],
                 d, 0)

\* server.py returns page_count as well
server_extract_and_tag_pdf(d) ==
    [tagged_text |-> extract_and_tag_pdf(d).tagged_text,
     source_map  |-> extract_and_tag_pdf(d).source_map,
     minted      |-> extract_and_tag_pdf(d).minted,
     page_count  |-> Len(d)]

(***************************************************************************)
(* Extraction harness: a document is drawn, then either variant of         *)
(* extract_and_tag_pdf is applied to it.                                   *)
(***************************************************************************)
InitExtract ==
    /\ doc \in Docs
    /\ extraction = NoValue
    /\ invocation = NoValue
    /\ DashboardIdle

ExtractApp ==
    /\ extraction = NoValue
    /\ extraction' = [fn |-> "app"] @@ extract_and_tag_pdf(doc)
    /\ UNCHANGED <<doc, invocation, dashboard_vars>>

ExtractServer ==
    /\ extraction = NoValue
    /\ extraction' = [fn |-> "server"] @@ server_extract_and_tag_pdf(doc)
    /\ UNCHANGED <<doc, invocation, dashboard_vars>>

NextExtract == ExtractApp \/ ExtractServer

SpecExtract == InitExtract /\ [][NextExtract]_vars

(***************************************************************************)
(* Properties of extraction                                                *)
(***************************************************************************)
\* a block survives when it is a text block with text left after trimming
Survives(block) == block.block_type = 0 /\ Strip(block.text) # <<>>

\* positions (1-based page, 0-based raw index) of the surviving blocks
SurvivingBlocks(d) ==
    {pi \in UNION {{<<p, i>> : i \in 0..(Len(d[p]) - 1)} : p \in 1..Len(d)} :
        Survives(d[pi[1]][pi[2] + 1])}

Extracted == extraction # NoValue

\* C1: extract_and_tag_pdf never mints one identifier for two surviving
\* blocks: the identifiers minted over the whole document are pairwise
\* distinct, and source_map has as many keys as there are surviving blocks.
C1_IdentifiersUnique ==
    Extracted =>
        /\ \A k, l \in 1..Len(extraction.minted) :
               k # l => extraction.minted[k].tag # extraction.minted[l].tag
        /\ Len(extraction.minted) = Cardinality(SurvivingBlocks(doc))
        /\ Cardinality(DOMAIN extraction.source_map)
               = Cardinality(SurvivingBlocks(doc))

\* two surviving blocks with the same raw index on different pages were tagged
C1_Witness ==
    /\ Extracted
    /\ \E k, l \in 1..Len(extraction.minted) :
           /\ extraction.minted[k].page # extraction.minted[l].page
           /\ extraction.minted[k].index = extraction.minted[l].index

\* text is a run of entries "<key> <map[key]>\n\n" and every key of map occurs
RECURSIVE RoundTrips(_, _, _)
RoundTrips(text, map, seen) ==
    IF text = <<>>
    THEN seen = DOMAIN map
    ELSE \E k \in DOMAIN map :
             LET e == TaggedEntry(k, map[k]) IN
             /\ Len(e) <= Len(text)
             /\ SubSeq(text, 1, Len(e)) = e
             /\ RoundTrips(SubSeq(text, Len(e) + 1, Len(text)), map, seen \cup {k})

\* C2: round-trip citation: every identifier written into tagged_text maps,
\* in source_map, to exactly the text written right after it, and every key
\* of source_map appears in tagged_text.
C2_RoundTrip ==
    Extracted =>
        /\ \A k \in 1..Len(extraction.minted) :
               /\ extraction.minted[k].tag \in DOMAIN extraction.source_map
               /\ extraction.source_map[extraction.minted[k].tag]
                      = extraction.minted[k].text
        /\ RoundTrips(extraction.tagged_text, extraction.source_map, {})

\* two blocks with different texts were tagged, one of them trimmed on the way
C2_Witness ==
    /\ Extracted
    /\ \E k, l \in 1..Len(extraction.minted) :
           extraction.minted[k].text # extraction.minted[l].text
    /\ \E p \in 1..Len(doc) : \E i \in 1..Len(doc[p]) :
           Survives(doc[p][i]) /\ Strip(doc[p][i].text) # doc[p][i].text

(***************************************************************************)
(* String tests and the fence-stripping substitution of server.py 134-136  *)
(***************************************************************************)
\* s[p..] begins with pre (p is 1-based)
MatchesAt(s, p, pre) ==
    /\ p + Len(pre) - 1 <= Len(s)
    /\ \A k \in 1..Len(pre) : s[p + k - 1] = pre[k]

\* str.startswith
StartsWith(s, pre) == MatchesAt(s, 1, pre)

\* the Python test "sub in s"
Contains(s, sub) == \E p \in 1..(Len(s) + 1) : MatchesAt(s, p, sub)

\* the grave accent (U+0060), which a TLA+ string cannot hold, as one character
Backtick == "U+0060"

Fence == <<Backtick, Backtick, Backtick>>
JsonWord == <<"j", "s", "o", "n">>

\* the first position at or after p that holds no whitespace (\s*)
RECURSIVE SkipWs(_, _)
SkipWs(s, p) ==
    IF p <= Len(s) /\ s[p] \in Whitespace THEN SkipWs(s, p + 1) ELSE p

\* re.MULTILINE anchors: ^ at the start and after a newline, $ at the end
\* and before a newline
AtLineStart(s, p) == p = 1 \/ s[p - 1] = "\n"
AtLineEnd(s, p) == p = Len(s) + 1 \/ s[p] = "\n"

\* end (first position after the match) of the first alternative of the
\* pattern (line start, fence, optional json, whitespace) at p, 0 if none
OpenFenceEnd(s, p) ==
    IF AtLineStart(s, p) /\ MatchesAt(s, p, Fence)
    THEN IF MatchesAt(s, p + 3, JsonWord)
         THEN SkipWs(s, p + 7)
         ELSE SkipWs(s, p + 3)
    ELSE 0

\* end of the second alternative (whitespace, fence, line end) at p, 0 if none
CloseFenceEnd(s, p) ==
    LET q == SkipWs(s, p) IN
    IF MatchesAt(s, q, Fence) /\ AtLineEnd(s, q + 3) THEN q + 3 ELSE 0

\* re.sub(pattern, '', s, flags=re.MULTILINE) of server.py 136 from p on:
\* leftmost match, first alternative first, matches removed
RECURSIVE FenceSubFrom(_, _, _)
FenceSubFrom(s, p, out) ==
    IF p > Len(s)
    THEN out
    ELSE IF OpenFenceEnd(s, p) # 0
         THEN FenceSubFrom(s, OpenFenceEnd(s, p), out)
         ELSE IF CloseFenceEnd(s, p) # 0
              THEN FenceSubFrom(s, CloseFenceEnd(s, p), out)
              ELSE FenceSubFrom(s, p + 1, Append(out, s[p]))

\* server.py 134-136: strip code fences if the response starts with one
StripCodeBlocks(s) ==
    IF StartsWith(Strip(s), Fence)
    THEN FenceSubFrom(Strip(s), 1, <<>>)
    ELSE s

(***************************************************************************)
(* json.loads: strict parsing of objects, arrays, strings (no escapes),    *)
(* integers and the three literals.  Values are tagged with their Python   *)
(* type: [t |-> "dict", v |-> key -> value], [t |-> "list", v |-> seq],    *)
(* [t |-> "str"], [t |-> "int"], [t |-> "bool"], None.                     *)
(***************************************************************************)
PyNone == [t |-> "None"]
PyStr(s) == [t |-> "str", v |-> s]
PyList(q) == [t |-> "list", v |-> q]
PyDict(f) == [t |-> "dict", v |-> f]

ParseFail(p) == [ok |-> FALSE, pos |-> p]
ParseOk(v, p) == [ok |-> TRUE, val |-> v, pos |-> p]

DigitSet == {DigitChars[k] : k \in 1..10}
DigitValue(c) == (CHOOSE k \in 1..10 : DigitChars[k] = c) - 1

\* the closing quote of the string opened just before p, 0 if the string is
\* unterminated or holds a control character
RECURSIVE StringEnd(_, _)
StringEnd(s, p) ==
    IF p > Len(s) \/ s[p] \in {"\n", "\t", "\\"}
    THEN 0
    ELSE IF s[p] = "\"" THEN p ELSE StringEnd(s, p + 1)

ParseString(s, p) ==
    IF StringEnd(s, p + 1) = 0
    THEN ParseFail(p)
    ELSE ParseOk(PyStr(SubSeq(s, p + 1, StringEnd(s, p + 1) - 1)),
                 StringEnd(s, p + 1) + 1)

RECURSIVE ParseDigits(_, _, _)
ParseDigits(s, p, n) ==
    IF p <= Len(s) /\ s[p] \in DigitSet
    THEN ParseDigits(s, p + 1, 10 * n + DigitValue(s[p]))
    ELSE ParseOk([t |-> "int", v |-> n], p)

ParseLiteral(s, p, word, v) ==
    IF MatchesAt(s, p, word) THEN ParseOk(v, p + Len(word)) ELSE ParseFail(p)

RECURSIVE ParseValue(_, _)
RECURSIVE ParseMembers(_, _, _)
RECURSIVE ParseElements(_, _, _)

\* the members of an object, p at the first character of a key
ParseMembers(s, p, acc) ==
    IF p > Len(s) \/ s[p] # "\""
    THEN ParseFail(p)
    ELSE LET key == ParseString(s, p) IN
         IF ~key.ok
         THEN key
         ELSE LET colon == SkipWs(s, key.pos) IN
              IF colon > Len(s) \/ s[colon] # ":"
              THEN ParseFail(colon)
              ELSE LET val == ParseValue(s, SkipWs(s, colon + 1)) IN
                   IF ~val.ok
                   THEN val
                   ELSE LET nxt == SkipWs(s, val.pos)
                            got == DictSet(acc, key.val.v, val.val)
                        IN  IF nxt > Len(s)
                            THEN ParseFail(nxt)
                            ELSE IF s[nxt] = "}"
                                 THEN ParseOk(PyDict(got), nxt + 1)
                                 ELSE IF s[nxt] = ","
                                      THEN ParseMembers(s, SkipWs(s, nxt + 1), got)
                                      ELSE ParseFail(nxt)

\* the elements of an array, p at the first character of an element
ParseElements(s, p, acc) ==
    LET val == ParseValue(s, p) IN
    IF ~val.ok
    THEN val
    ELSE LET nxt == SkipWs(s, val.pos)
             got == Append(acc, val.val)
         IN  IF nxt > Len(s)
             THEN ParseFail(nxt)
             ELSE IF s[nxt] = "]"
                  THEN ParseOk(PyList(got), nxt + 1)
                  ELSE IF s[nxt] = ","
                       THEN ParseElements(s, SkipWs(s, nxt + 1), got)
                       ELSE ParseFail(nxt)

ParseValue(s, p) ==
    IF p > Len(s)
    THEN ParseFail(p)
    ELSE CASE s[p] = "{" ->
                  IF SkipWs(s, p + 1) <= Len(s) /\ s[SkipWs(s, p + 1)] = "}"
                  THEN ParseOk(PyDict(EmptyMap), SkipWs(s, p + 1) + 1)
                  ELSE ParseMembers(s, SkipWs(s, p + 1), EmptyMap)
           [] s[p] = "[" ->
                  IF SkipWs(s, p + 1) <= Len(s) /\ s[SkipWs(s, p + 1)] = "]"
                  THEN ParseOk(PyList(<<>>), SkipWs(s, p + 1) + 1)
                  ELSE ParseElements(s, SkipWs(s, p + 1), <<>>)
           [] s[p] = "\"" -> ParseString(s, p)
           [] s[p] \in DigitSet -> ParseDigits(s, p, 0)
           [] s[p] = "t" -> ParseLiteral(s, p, <<"t", "r", "u", "e">>,
                                         [t |-> "bool", v |-> TRUE])
           [] s[p] = "f" -> ParseLiteral(s, p, <<"f", "a", "l", "s", "e">>,
                                         [t |-> "bool", v |-> FALSE])
           [] s[p] = "n" -> ParseLiteral(s, p, <<"n", "u", "l", "l">>, PyNone)
           [] OTHER -> ParseFail(p)

\* json.loads(s): [ok |-> TRUE, val] or [ok |-> FALSE, pos] for a
\* JSONDecodeError raised at pos; the whole text must be consumed
json_loads(s) ==
    LET r == ParseValue(s, SkipWs(s, 1)) IN
    IF ~r.ok
    THEN r
    ELSE IF SkipWs(s, r.pos) > Len(s)
         THEN ParseOk(r.val, Len(s) + 1)
         ELSE ParseFail(SkipWs(s, r.pos))

\* Python truthiness (if x:)
Truthy(x) ==
    CASE x.t = "None" -> FALSE
      [] x.t = "bool" -> x.v
      [] x.t = "int" -> x.v # 0
      [] x.t = "str" -> x.v # <<>>
      [] x.t = "list" -> x.v # <<>>
      [] x.t = "dict" -> DOMAIN x.v # {}

(***************************************************************************)
(* The LLM collaborator: model.generate_content either returns a response  *)
(* with a text or raises an exception e.  An invocation is given the       *)
(* outcomes of its successive generate_content calls, as the mock of       *)
(* test_retry.py gives them by side_effect.  code is the upstream status   *)
(* (429 = rate limit / quota); the program only ever sees str(e).          *)
(***************************************************************************)
RateLimitStr ==
    <<"4", "2", "9", " ", "Q", "u", "o", "t", "a", " ", "e", "x", "c", "e",
      "e", "d", "e", "d">>

InternalStr ==
    <<"5", "0", "0", " ", "I", "n", "t", "e", "r", "n", "a", "l", " ", "e",
      "r", "r", "o", "r">>

\* an over-long prompt: the message quotes a token count
TokenLimitStr ==
    <<"4", "0", "0", " ", "t", "o", "k", "e", "n", "s", " ", "1", "4", "2",
      "9", "0", "1", "2">>

RateLimitError == [ok |-> FALSE, code |-> 429, str |-> RateLimitStr]
InternalError == [ok |-> FALSE, code |-> 500, str |-> InternalStr]
TokenLimitError == [ok |-> FALSE, code |-> 400, str |-> TokenLimitStr]

Errors == {RateLimitError, InternalError, TokenLimitError}

Reply(text) == [ok |-> TRUE, text |-> text]

\* texts the LLM may answer a compression prompt with
CitingResponse ==
    <<"{", "\"", "s", "u", "m", "m", "a", "r", "y", "\"", ":", "{", "\"",
      "s", "e", "c", "t", "i", "o", "n", "s", "\"", ":", "[", "{", "\"", "k",
      "e", "y", "_", "p", "o", "i", "n", "t", "s", "\"", ":", "[", "{", "\"",
      "s", "o", "u", "r", "c", "e", "_", "i", "d", "s", "\"", ":", "[", "\"",
      "[", "[", "P", "1", "_", "0", "]", "]", "\"", ",", "\"", "[", "[", "P",
      "9", "_", "9", "]", "]", "\"", "]", "}", "]", "}", "]", "}", "}">>

\* a payload that parses, bare and inside a fenced code block with and
\* without the language tag
PlainResponse ==
    <<"{", "\"", "s", "u", "m", "m", "a", "r", "y", "\"", ":", "{", "}", "}">>

Wrapped(payload, language) ==
    Fence \o language \o <<"\n">> \o payload \o <<"\n">> \o Fence

FencedResponse == Wrapped(PlainResponse, JsonWord)

BareFencedResponse == Wrapped(PlainResponse, <<>>)

EmptyResponse ==
    <<>>

GarbageResponse ==
    <<"o", "o", "p", "s">>

ListResponse ==
    <<"[", "7", "]">>

CompressionResponses ==
    {CitingResponse, PlainResponse, FencedResponse, BareFencedResponse,
     EmptyResponse, GarbageResponse, ListResponse}

\* texts the LLM may answer a question with
CitingAnswer ==
    <<"A", " ", "[", "[", "P", "1", "_", "0", "]", "]", " ", "b", " ", "[",
      "[", "P", "1", "2", "_", "3", "]", "]", ".">>

PlainAnswer ==
    <<"N", "o", ".">>

MalformedTagAnswer ==
    <<"[", "[", "P", "1", "_", "]", "]", " ", "[", "P", "2", "_", "0", "]",
      "]">>

Answers == {CitingAnswer, PlainAnswer, MalformedTagAnswer}

CompressionOutcomes == {Reply(r) : r \in CompressionResponses} \cup Errors
AnswerOutcomes == {Reply(r) : r \in Answers} \cup Errors

ApiKeys == {"", "KEY"}

\* a Python string built by an f-string or given as a literal: the template
\* and the interpolated texts
FStr(fmt, args) == [t |-> "fstr", fmt |-> fmt, args |-> args]

(***************************************************************************)
(* app.py: summarize_with_gemini (49-132) and answer_question (134-185)    *)
(***************************************************************************)
max_retries == 3
base_delay == 5
qa_max_retries == 3
qa_base_delay == 10

\* a factor that does not grow with the attempt
PowFlat(n) == 1

RECURSIVE Pow2(_)
Pow2(n) == IF n = 0 THEN 1 ELSE 2 * Pow2(n - 1)

Code429 == <<"4", "2", "9">>

\* a classification by the word "quota", which the message spells "Quota"
IsQuotaWord(error_str) == Contains(error_str, <<"q", "u", "o", "t", "a">>)

\* the classification of app.py 120 and 175: "429" in error_str
IsQuotaError(error_str) == Contains(error_str, Code429)

CallEvent(text, attempt, o) ==
    [ev |-> "generate_content", text |-> text, attempt |-> attempt, outcome |-> o]
SleepEvent(secs) == [ev |-> "sleep", secs |-> secs]
WarningEvent(msg) == [ev |-> "st.warning", msg |-> msg]
ErrorEvent(msg) == [ev |-> "st.error", msg |-> msg]

MissingKeyMsg == FStr("Google API Key is missing.", <<>>)
QuotaRetryMsg(sleep_time, attempt) ==
    FStr("Quota exceeded. Retrying in {sleep_time}s... (Attempt {attempt + 1}/{max_retries})",
         <<Dec(sleep_time), Dec(attempt + 1), Dec(max_retries)>>)
QuotaExhaustedMsg ==
    FStr("Exceeded maximum retries for API quota. Please try again later or switch models.",
         <<>>)
SummarizeErrorMsg(e) == FStr("Error during summarization: {e}", <<e>>)

\* the retry loop of summarize_with_gemini from attempt on (114-132)
RECURSIVE SummarizeFrom(_, _, _, _)
SummarizeFrom(text, outcomes, attempt, trace) ==
    IF attempt >= max_retries
    THEN [result |-> PyNone, trace |-> trace]
    ELSE LET o == outcomes[attempt + 1]
             called == Append(trace, CallEvent(text, attempt, o))
         IN  IF o.ok
             THEN [result |-> PyStr(o.text), trace |-> called]
             ELSE IF IsQuotaError(o.str)
                  THEN IF attempt < max_retries - 1
                       THEN LET sleep_time == base_delay * Pow2(attempt) IN
                            SummarizeFrom(text, outcomes, attempt + 1,
                                called \o <<WarningEvent(QuotaRetryMsg(sleep_time, attempt)),
                                            SleepEvent(sleep_time)>>)
                       ELSE [result |-> PyNone,
                             trace |-> Append(called, ErrorEvent(QuotaExhaustedMsg))]
                  ELSE [result |-> PyNone,
                        trace |-> Append(called, ErrorEvent(SummarizeErrorMsg(o.str)))]

summarize_with_gemini(text, api_key, outcomes) ==
    IF api_key = ""
    THEN [result |-> PyNone, trace |-> <<ErrorEvent(MissingKeyMsg)>>]
    ELSE SummarizeFrom(text, outcomes, 0, <<>>)

QaMissingKeyMsg == FStr("API Key missing.", <<>>)
QaQuotaExhaustedMsg(error_str) ==
    FStr("Exceeded maximum retries for API quota. Please try again in a minute or switch to a different model.\n\nRaw Error: {error_str}",
         <<error_str>>)
QaErrorMsg(e) == FStr("Error answering question: {str(e)}", <<e>>)

\* the retry loop of answer_question from attempt on (169-185)
RECURSIVE AnswerFrom(_, _, _, _)
AnswerFrom(text, outcomes, attempt, trace) ==
    IF attempt >= qa_max_retries
    THEN [result |-> PyNone, trace |-> trace]
    ELSE LET o == outcomes[attempt + 1]
             called == Append(trace, CallEvent(text, attempt, o))
         IN  IF o.ok
             THEN [result |-> PyStr(o.text), trace |-> called]
             ELSE IF IsQuotaError(o.str)
                  THEN IF attempt < qa_max_retries - 1
                       THEN LET sleep_time == qa_base_delay * Pow2(attempt) IN
                            AnswerFrom(text, outcomes, attempt + 1,
                                       Append(called, SleepEvent(sleep_time)))
                       ELSE [result |-> QaQuotaExhaustedMsg(o.str), trace |-> called]
                  ELSE [result |-> QaErrorMsg(o.str), trace |-> called]

answer_question(tagged_text, question, api_key, outcomes) ==
    IF api_key = ""
    THEN [result |-> QaMissingKeyMsg, trace |-> <<>>]
    ELSE AnswerFrom(tagged_text, outcomes, 0, <<>>)

(***************************************************************************)
(* server.py: get_model, summarize_with_gemini, /api/process, /api/chat    *)
(***************************************************************************)
\* the two-page document of Alpha and Beta, and a page whose only text block
\* follows an image
DocAlphaBeta == <<<<AlphaBlock>>, <<BetaBlock>>>>
DocImageBeta == <<<<ImageBlock, BetaBlock>>>>

PdfName == <<"a", ".", "p", "d", "f">>

\* request.files['file']: absent, sent without a name, bytes that are no PDF,
\* or a PDF
Upload(filename, parses, d) ==
    [present |-> TRUE, filename |-> filename, parses |-> parses, doc |-> d]

RequestFiles ==
    {NoFile, Upload(<<>>, TRUE, DocAlphaBeta), Upload(PdfName, FALSE, <<>>),
     Upload(PdfName, TRUE, DocAlphaBeta), Upload(PdfName, TRUE, DocImageBeta)}

Raise(exc, trace) == [raised |-> TRUE, exc |-> exc, trace |-> trace]
Return(result, trace) == [raised |-> FALSE, result |-> result, trace |-> trace]

ServerMissingKeyMsg ==
    FStr("GOOGLE_API_KEY not found. Please create a .env file and set GOOGLE_API_KEY.",
         <<>>)

\* a get_model that hands out a model without looking at the key
get_model_unchecked(api_key) == Return(PyNone, <<>>)

\* get_model (20-24): raises ValueError without a key
get_model(api_key) ==
    IF api_key = "" THEN Raise(ServerMissingKeyMsg, <<>>) ELSE Return(PyNone, <<>>)

\* summarize_with_gemini (49-98): one generate_content call, no handler
server_summarize_with_gemini(text, api_key, outcomes) ==
    IF get_model(api_key).raised
    THEN get_model(api_key)
    ELSE LET o == outcomes[1]
             called == <<CallEvent(text, 0, o)>>
         IN  IF o.ok
             THEN Return(o.text, called)
             ELSE Raise(FStr("{e}", <<o.str>>), called)

\* str(e) of the JSONDecodeError raised at pos: a message and the position,
\* never the document
JsonErrorMsg(pos) ==
    FStr("{msg}: line {lineno} column {colno} (char {pos})", <<Dec(pos - 1)>>)
PdfErrorMsg == FStr("Failed to open stream", <<>>)

JsonResponse(status, body) == [status |-> status, body |-> body]
Failure(status, error, trace) ==
    [response |-> JsonResponse(status, [success |-> FALSE, error |-> error]),
     trace |-> trace]

\* process_document (108-154)
process_document(file, api_key, outcomes) ==
    IF ~file.present
    THEN Failure(400, FStr("No file uploaded", <<>>), <<>>)
    ELSE IF file.filename = <<>>
    THEN Failure(400, FStr("No file selected", <<>>), <<>>)
    ELSE IF ~file.parses
    THEN Failure(500, PdfErrorMsg, <<>>)
    ELSE LET ex == server_extract_and_tag_pdf(file.doc)
             llm == server_summarize_with_gemini(ex.tagged_text, api_key, outcomes)
         IN  IF llm.raised
             THEN Failure(500, llm.exc, llm.trace)
             ELSE LET parsed == json_loads(StripCodeBlocks(llm.result)) IN
                  IF ~parsed.ok
                  THEN Failure(500, JsonErrorMsg(parsed.pos), llm.trace)
                  ELSE [response |->
                            JsonResponse(200,
                                [success |-> TRUE,
                                 filename |-> file.filename,
                                 page_count |-> ex.page_count,
                                 source_map |-> ex.source_map,
                                 tagged_text |-> ex.tagged_text,
                                 data |-> parsed.val]),
                        trace |-> llm.trace]

\* end of a match of \[\[P\d+_\d+\]\] at p, 0 if none
RECURSIVE SkipDigits(_, _)
SkipDigits(s, p) ==
    IF p <= Len(s) /\ s[p] \in DigitSet THEN SkipDigits(s, p + 1) ELSE p

TagEnd(s, p) ==
    IF MatchesAt(s, p, <<"[", "[", "P">>)
    THEN LET a == SkipDigits(s, p + 3) IN
         IF a > p + 3 /\ MatchesAt(s, a, <<"_">>)
         THEN LET b == SkipDigits(s, a + 1) IN
              IF b > a + 1 /\ MatchesAt(s, b, <<"]", "]">>) THEN b + 2 ELSE 0
         ELSE 0
    ELSE 0

\* re.findall(r'\[\[P\d+_\d+\]\]', s) from p on
RECURSIVE FindAllTags(_, _, _)
FindAllTags(s, p, found) ==
    IF p > Len(s)
    THEN found
    ELSE IF TagEnd(s, p) # 0
         THEN FindAllTags(s, TagEnd(s, p), Append(found, SubSeq(s, p, TagEnd(s, p) - 1)))
         ELSE FindAllTags(s, p + 1, found)

\* ", ".join(items)
RECURSIVE Join(_)
Join(items) ==
    IF items = <<>>
    THEN <<>>
    ELSE IF Len(items) = 1
         THEN items[1]
         ELSE items[1] \o <<",", " ">> \o Join(Tail(items))

NoEvidenceMsg == FStr("Based on document context", <<>>)

\* chat (156-185)
chat(request_data, api_key, outcomes) ==
    IF request_data.question = <<>> \/ request_data.tagged_text = <<>>
    THEN Failure(400, FStr("Missing question or context", <<>>), <<>>)
    ELSE IF get_model(api_key).raised
    THEN Failure(500, get_model(api_key).exc, <<>>)
    ELSE LET o == outcomes[1]
             called == <<CallEvent(request_data.tagged_text, 0, o)>>
         IN  IF ~o.ok
             THEN Failure(500, FStr("{e}", <<o.str>>), called)
             ELSE LET evidence == Join(FindAllTags(o.text, 1, <<>>)) IN
                  [response |->
                       JsonResponse(200,
                           [success |-> TRUE,
                            answer |-> o.text,
                            evidence |-> IF evidence # <<>>
                                         THEN PyStr(evidence)
                                         ELSE NoEvidenceMsg]),
                   trace |-> called]

(***************************************************************************)
(* LLM harness: one call of an LLM-calling function or one request, with   *)
(* the key, the inputs and the outcomes of the generate_content calls      *)
(* drawn from the sets above.                                              *)
(***************************************************************************)
Question == <<"W", "h", "y", "?">>

CompressionOutcomeSeqs == [1..max_retries -> CompressionOutcomes]
AnswerOutcomeSeqs == [1..qa_max_retries -> AnswerOutcomes]

TaggedTexts == {<<>>, extract_and_tag_pdf(DocAlphaBeta).tagged_text}

InitLLM ==
    /\ doc = <<>>
    /\ extraction = NoValue
    /\ invocation = NoValue
    /\ DashboardIdle

CallSummarize ==
    /\ invocation = NoValue
    /\ \E key \in ApiKeys, outcomes \in CompressionOutcomeSeqs :
           invocation' =
               [fn |-> "app.summarize_with_gemini", api_key |-> key,
                outcomes |-> outcomes]
               @@ summarize_with_gemini(extract_and_tag_pdf(DocAlphaBeta).tagged_text,
                                        key, outcomes)
    /\ UNCHANGED <<doc, extraction, dashboard_vars>>

CallAnswer ==
    /\ invocation = NoValue
    /\ \E key \in ApiKeys, outcomes \in AnswerOutcomeSeqs :
           invocation' =
               [fn |-> "app.answer_question", api_key |-> key,
                outcomes |-> outcomes]
               @@ answer_question(extract_and_tag_pdf(DocAlphaBeta).tagged_text,
                                  Question, key, outcomes)
    /\ UNCHANGED <<doc, extraction, dashboard_vars>>

PostProcess ==
    /\ invocation = NoValue
    /\ \E key \in ApiKeys, file \in RequestFiles, outcomes \in CompressionOutcomeSeqs :
           invocation' =
               [fn |-> "server.process_document", api_key |-> key,
                file |-> file, outcomes |-> outcomes]
               @@ process_document(file, key, outcomes)
    /\ UNCHANGED <<doc, extraction, dashboard_vars>>

PostChat ==
    /\ invocation = NoValue
    /\ \E key \in ApiKeys, q \in {<<>>, Question}, text \in TaggedTexts,
          outcomes \in AnswerOutcomeSeqs :
           invocation' =
               [fn |-> "server.chat", api_key |-> key,
                request_data |-> [question |-> q, tagged_text |-> text],
                outcomes |-> outcomes]
               @@ chat([question |-> q, tagged_text |-> text], key, outcomes)
    /\ UNCHANGED <<doc, extraction, dashboard_vars>>

NextLLM == CallSummarize \/ CallAnswer \/ PostProcess \/ PostChat

SpecLLM == InitLLM /\ [][NextLLM]_vars

(***************************************************************************)
(* Properties of the LLM-calling functions                                 *)
(***************************************************************************)
Invoked == invocation # NoValue

AppFns == {"app.summarize_with_gemini", "app.answer_question"}

\* an outcome that is a rate-limit / quota failure upstream
IsRateLimit(o) == ~o.ok /\ o.code = 429
\* an outcome that is a failure of any other kind
IsOtherFailure(o) == ~o.ok /\ o.code # 429

EventsOf(trace, ev) == {i \in 1..Len(trace) : trace[i].ev = ev}
Calls(trace) == Cardinality(EventsOf(trace, "generate_content"))
Sleeps(trace) == Cardinality(EventsOf(trace, "sleep"))
Warnings(trace) == Cardinality(EventsOf(trace, "st.warning"))

\* an app.py function was called with a key
AppCall == Invoked /\ invocation.fn \in AppFns /\ invocation.api_key # ""

\* the first k outcomes are rate-limit failures
RateLimitedFor(outcomes, k) == \A j \in 1..k : IsRateLimit(outcomes[j])

\* C5: in app.py's summarize_with_gemini and answer_question, k < 3
\* rate-limit (429) failures followed by a success give the successful
\* response text after exactly k+1 LLM calls and exactly k backoff waits
\* (and, in summarize_with_gemini, one warning per wait).
C5_RetryThenSuccess ==
    AppCall =>
        \A k \in 0..(max_retries - 1) :
            (RateLimitedFor(invocation.outcomes, k) /\ invocation.outcomes[k + 1].ok)
            => /\ invocation.result = PyStr(invocation.outcomes[k + 1].text)
               /\ Calls(invocation.trace) = k + 1
               /\ Sleeps(invocation.trace) = k
               /\ invocation.fn = "app.summarize_with_gemini"
                      => Warnings(invocation.trace) = k

\* the tested case: 429, 429, success
C5_Witness ==
    /\ AppCall
    /\ invocation.fn = "app.summarize_with_gemini"
    /\ RateLimitedFor(invocation.outcomes, 2)
    /\ invocation.outcomes[3].ok
    /\ Calls(invocation.trace) = 3

\* the message the user is left with when the call failed: the last st.error
\* of summarize_with_gemini, the returned text of answer_question
FailureMessage ==
    IF invocation.fn = "app.summarize_with_gemini"
    THEN invocation.trace[Len(invocation.trace)].msg
    ELSE invocation.result

IsQuotaExhaustedMessage(m) ==
    m.t = "fstr" /\ m.fmt \in {QuotaExhaustedMsg.fmt, QaQuotaExhaustedMsg(<<>>).fmt}

\* the outcome of the last generate_content call of the invocation
LastOutcome ==
    invocation.trace[CHOOSE i \in EventsOf(invocation.trace, "generate_content") :
                         \A j \in EventsOf(invocation.trace, "generate_content") : j <= i].outcome

\* what C6 says of an invocation whose every attempt is rate limited
C6_CeilingPart ==
    (AppCall /\ RateLimitedFor(invocation.outcomes, max_retries))
    => /\ Calls(invocation.trace) = max_retries
       /\ Sleeps(invocation.trace) = max_retries - 1
       /\ \A i \in EventsOf(invocation.trace, "sleep") :
              \E j \in EventsOf(invocation.trace, "generate_content") : j > i
       /\ IsQuotaExhaustedMessage(FailureMessage)

\* what C6 says of the other failures: they never end in the quota message
C6_DistinctPart ==
    (AppCall /\ IsOtherFailure(LastOutcome))
    => ~IsQuotaExhaustedMessage(FailureMessage)

\* C6: when every attempt is rate limited (429), summarize_with_gemini and
\* answer_question call the LLM exactly 3 times, wait after none but the
\* last attempt, and end in a terminal failure whose user-facing message
\* differs from the message of every non-rate-limit failure.
C6_RateLimitCeiling == C6_CeilingPart /\ C6_DistinctPart

\* C7: in every path that calls the LLM, a failure that is not a
\* rate-limit/quota failure is surfaced immediately: no backoff wait and no
\* further LLM call follows it within the invocation.
C7_OtherFailuresImmediate ==
    Invoked =>
        \A i \in EventsOf(invocation.trace, "generate_content") :
            IsOtherFailure(invocation.trace[i].outcome)
            => \A j \in (i + 1)..Len(invocation.trace) :
                   invocation.trace[j].ev \notin {"sleep", "generate_content"}

\* POST /api/process with a PDF and a key configured
ProcessCall ==
    /\ Invoked
    /\ invocation.fn = "server.process_document"
    /\ invocation.api_key # ""
    /\ invocation.file.present
    /\ invocation.file.filename # <<>>
    /\ invocation.file.parses

\* C8: a rate-limit/quota failure of the LLM call made for POST /api/process
\* is retried with backoff before the request is answered with a failure; one
\* rate-limit failure followed by a would-be success gives no failure response.
C8_ServerRetriesRateLimit ==
    (ProcessCall /\ IsRateLimit(invocation.outcomes[1]))
    => /\ Sleeps(invocation.trace) >= 1
       /\ Calls(invocation.trace) >= 2
       /\ (invocation.outcomes[2].ok
           /\ json_loads(StripCodeBlocks(invocation.outcomes[2].text)).ok)
          => invocation.response.body.success

(***************************************************************************)
(* app.py dashboard: rendering of the stored summary (434-569)             *)
(***************************************************************************)
K_summary == <<"s", "u", "m", "m", "a", "r", "y">>
K_sections == <<"s", "e", "c", "t", "i", "o", "n", "s">>
K_key_points == <<"k", "e", "y", "_", "p", "o", "i", "n", "t", "s">>
K_source_ids == <<"s", "o", "u", "r", "c", "e", "_", "i", "d", "s">>
K_risk_type == <<"r", "i", "s", "k", "_", "t", "y", "p", "e">>
K_title == <<"t", "i", "t", "l", "e">>

\* d.get(key, default) on a dict
DictGet(d, key, default) == IF key \in DOMAIN d.v THEN d.v[key] ELSE default

RECURSIVE SetToSeq(_)
SetToSeq(S) ==
    IF S = {} THEN <<>> ELSE LET x == CHOOSE y \in S : TRUE IN <<x>> \o SetToSeq(S \ {x})

\* what "for x in v" iterates over; anything else raises TypeError
Iterable(x) == x.t \in {"list", "str", "dict"}
Items(x) ==
    CASE x.t = "list" -> x.v
      [] x.t = "str" -> [i \in 1..Len(x.v) |-> PyStr(<<x.v[i]>>)]
      [] x.t = "dict" -> [i \in 1..Cardinality(DOMAIN x.v) |->
                             PyStr(SetToSeq(DOMAIN x.v)[i])]

\* "sid in source_map" raises TypeError for an unhashable sid
Hashable(x) == x.t \notin {"list", "dict"}

\* the risk loop (446-451) runs through without an exception
KeyPointCounts(p) ==
    /\ p.t = "dict"
    /\ DictGet(p, K_risk_type, PyStr(<<>>)).t = "str"
SectionCounts(sec) ==
    /\ sec.t = "dict"
    /\ Iterable(DictGet(sec, K_key_points, PyList(<<>>)))
    /\ \A i \in 1..Len(Items(DictGet(sec, K_key_points, PyList(<<>>)))) :
           KeyPointCounts(Items(DictGet(sec, K_key_points, PyList(<<>>)))[i])
TreeCounts(json_summary) ==
    /\ json_summary.t = "dict"
    /\ DictGet(json_summary, K_summary, PyDict(EmptyMap)).t = "dict"
    /\ LET data == DictGet(json_summary, K_summary, PyDict(EmptyMap))
           sections == DictGet(data, K_sections, PyList(<<>>))
       IN  /\ Iterable(sections)
           /\ \A i \in 1..Len(Items(sections)) : SectionCounts(Items(sections)[i])

\* the Trace part of one key point (508-519): the SOURCE popover with one
\* REF ID and one code block per valid source, or the NO SOURCE caption
RenderSources(point, source_map) ==
    LET source_ids == DictGet(point, K_source_ids, PyList(<<>>)) IN
    IF ~Truthy(source_ids)
    THEN [crashed |-> FALSE, widget |-> "caption NO SOURCE", refs |-> <<>>]
    ELSE IF ~Iterable(source_ids)
            \/ \E i \in 1..Len(Items(source_ids)) : ~Hashable(Items(source_ids)[i])
         THEN [crashed |-> TRUE, widget |-> "popover SOURCE", refs |-> <<>>]
         ELSE LET IsValid(sid) == sid.t = "str" /\ sid.v \in DOMAIN source_map
                  valid_sources == SelectSeq(Items(source_ids), IsValid)
              IN  [crashed |-> FALSE, widget |-> "popover SOURCE",
                   refs |-> [i \in 1..Len(valid_sources) |->
                                [ref_id |-> valid_sources[i].v,
                                 code |-> source_map[valid_sources[i].v]]]]

\* the key points of all sections, in order (484-486)
RECURSIVE KeyPointsOf(_)
KeyPointsOf(sections) ==
    IF sections = <<>>
    THEN <<>>
    ELSE Items(DictGet(sections[1], K_key_points, PyList(<<>>)))
         \o KeyPointsOf(Tail(sections))

\* the key points rendered one after another, up to the first exception
RECURSIVE RenderPoints(_, _, _)
RenderPoints(points, source_map, done) ==
    IF points = <<>>
    THEN [crashed |-> FALSE, points |-> done]
    ELSE LET r == RenderSources(points[1], source_map) IN
         IF r.crashed
         THEN [crashed |-> TRUE, points |-> Append(done, r)]
         ELSE RenderPoints(Tail(points), source_map, Append(done, r))

\* the summary section of a script run (434-569): the exception of a
\* malformed tree ends the run before the tabs, one raised while the
\* sections are rendered ends it before the Q&A tab
RenderSummary(json_summary, source_map) ==
    IF ~TreeCounts(json_summary)
    THEN [crashed |-> TRUE, points |-> <<>>]
    ELSE LET data == DictGet(json_summary, K_summary, PyDict(EmptyMap))
             sections == Items(DictGet(data, K_sections, PyList(<<>>)))
         IN  IF \E i \in 1..Len(sections) :
                    DictGet(sections[i], K_title, PyStr(<<>>)).t # "str"
             THEN [crashed |-> TRUE, points |-> <<>>]
             ELSE RenderPoints(KeyPointsOf(sections), source_map, <<>>)

(***************************************************************************)
(* app.py dashboard: one run of the script (188-574).  Streamlit runs the  *)
(* whole script after every widget event; execute_btn is TRUE and prompt   *)
(* is given only in the run their own event starts.                        *)
(***************************************************************************)
NoPrompt == <<>>

NoteEvents == {"st.error", "st.text"}

\* the st.error notifications of a trace
Notes(trace) == SelectSeq(trace, LAMBDA e : e.ev \in NoteEvents)

ParseFailedMsg == FStr("Failed to parse AI response as JSON.", <<>>)

\* session upload handling (393-406)
NeedsExtraction(ss, file) ==
    \/ "tagged_text" \notin DOMAIN ss
    \/ ss.last_uploaded # file.filename

\* 400-405: the five keys written after a new upload
Ingested(ex, filename) ==
    [tagged_text   |-> ex.tagged_text,
     source_map    |-> ex.source_map,
     last_uploaded |-> filename,
     json_summary  |-> PyNone,
     qa_history    |-> <<>>]

Ingest(ss, file) ==
    IF NeedsExtraction(ss, file)
    THEN Ingested(extract_and_tag_pdf(file.doc), file.filename)
    ELSE ss

\* the text of the last generate_content call of a trace (422, 116)
LastCallText(trace) ==
    LET calls == SelectSeq(trace, LAMBDA e : e.ev = "generate_content")
    IN  calls[Len(calls)].text

\* a handler that also empties the source map when it stores a summary
StoreSummaryDroppingMap(ss, llm, parsed) ==
    [session_state |->
         IF Truthy(llm.result) /\ parsed.ok
         THEN [ss EXCEPT !.json_summary = parsed.val, !.source_map = EmptyMap]
         ELSE ss,
     notes |-> Notes(llm.trace),
     response_text |-> llm.result,
     summarized |-> PyNone]

\* 424-432: what the handler does with the text summarize_with_gemini returned
StoreSummary(ss, llm, parsed) ==
    IF Truthy(llm.result)
    THEN IF parsed.ok
         THEN [session_state |-> [ss EXCEPT !.json_summary = parsed.val],
               notes |-> Notes(llm.trace), response_text |-> llm.result,
               summarized |-> PyStr(LastCallText(llm.trace))]
         ELSE [session_state |-> ss,
               notes |-> Notes(llm.trace)
                         \o <<ErrorEvent(ParseFailedMsg),
                              [ev |-> "st.text", msg |-> llm.result]>>,
               response_text |-> llm.result,
               summarized |-> PyNone]
    ELSE [session_state |-> ss, notes |-> Notes(llm.trace),
          response_text |-> llm.result, summarized |-> PyNone]

\* json.loads(response_text), reached only for a truthy response_text
LoadSummary(text) ==
    IF Truthy(text) THEN json_loads(text.v) ELSE ParseFail(0)

ParseSummary(ss, llm) == StoreSummary(ss, llm, LoadSummary(llm.result))

\* a handler that has a text other than the stored one summarized
CompressOther(ss, api_key, outcomes) ==
    ParseSummary(ss, summarize_with_gemini(<<>>, api_key, outcomes))

\* EXECUTE COMPRESSION handler (417-432)
Compress(ss, api_key, outcomes) ==
    ParseSummary(ss, summarize_with_gemini(ss.tagged_text, api_key, outcomes))

\* Q&A chat handler (555-564)
Ask(ss, prompt, api_key, outcomes) ==
    [ss EXCEPT !.qa_history =
        @ \o <<[role |-> "user", content |-> PyStr(prompt)],
               [role |-> "assistant",
                content |-> answer_question(ss.tagged_text, prompt, api_key,
                                            outcomes).result]>>]

\* 434-569 with a stored summary: the tabs, then the chat input
Tabs(run, shown, api_key, prompt, qa_outcomes) ==
    [session_state |->
         IF ~shown.crashed /\ prompt # NoPrompt
         THEN Ask(run.session_state, prompt, api_key, qa_outcomes)
         ELSE run.session_state,
     screen |-> [crashed |-> shown.crashed, notes |-> run.notes,
                 points |-> shown.points,
                 execute_button |-> TRUE,
                 chat_input |-> ~shown.crashed],
     response_text |-> run.response_text,
     summarized |-> run.summarized]

\* 434: the summary is shown only when json_summary is truthy
Dashboard(run, api_key, prompt, qa_outcomes) ==
    IF ~Truthy(run.session_state.json_summary)
    THEN [session_state |-> run.session_state,
          screen |-> [crashed |-> FALSE, notes |-> run.notes, points |-> <<>>,
                      execute_button |-> TRUE, chat_input |-> FALSE],
          response_text |-> run.response_text,
          summarized |-> run.summarized]
    ELSE Tabs(run,
              RenderSummary(run.session_state.json_summary,
                            run.session_state.source_map),
              api_key, prompt, qa_outcomes)

\* 408-432: the control center and the button's handler
Control(ss, api_key, execute_btn, prompt, outcomes, qa_outcomes) ==
    Dashboard(IF execute_btn
              THEN Compress(ss, api_key, outcomes)
              ELSE [session_state |-> ss, notes |-> <<>>, response_text |-> PyNone,
                    summarized |-> PyNone],
              api_key, prompt, qa_outcomes)

\* 390-391
WithHistory(ss) ==
    IF "qa_history" \in DOMAIN ss THEN ss ELSE [qa_history |-> <<>>] @@ ss

\* selected_model is set exactly when a key is typed in (192-208), so the
\* main block runs when a file and a key are there
ScriptRun(ss, file, api_key, execute_btn, prompt, outcomes, qa_outcomes) ==
    IF ~(file.present /\ api_key # "")
    THEN [session_state |-> WithHistory(ss), screen |-> BlankScreen,
          response_text |-> PyNone, summarized |-> PyNone]
    ELSE IF NeedsExtraction(WithHistory(ss), file) /\ ~file.parses
    THEN [session_state |-> WithHistory(ss),
          screen |-> [BlankScreen EXCEPT !.crashed = TRUE],
          response_text |-> PyNone, summarized |-> PyNone]
    ELSE Control(Ingest(WithHistory(ss), file), api_key, execute_btn, prompt,
                 outcomes, qa_outcomes)

(***************************************************************************)
(* The dashboard session: each action is a widget event followed by the    *)
(* script run it starts.                                                   *)
(***************************************************************************)
\* question and answer pairs kept in qa_history
MaxTurns == 1

OtherName == <<"b", ".", "p", "d", "f">>

SessionFiles ==
    {Upload(PdfName, TRUE, DocAlphaBeta), Upload(PdfName, TRUE, DocImageBeta),
     Upload(OtherName, TRUE, DocImageBeta), Upload(OtherName, FALSE, <<>>)}

\* the service is rate limited for the first k calls and then behaves as o
LimitedThen(k, o, n) == [j \in 1..n |-> IF j <= k THEN RateLimitError ELSE o]

SessionOutcomeSeqs ==
    {LimitedThen(k, o, max_retries) : k \in 0..max_retries, o \in CompressionOutcomes}
SessionAnswerSeqs ==
    {LimitedThen(k, o, qa_max_retries) : k \in 0..qa_max_retries, o \in AnswerOutcomes}

NoOutcomes == <<>>

\* the widget values of the run and what the run leaves behind
Show(run, file, api_key) ==
    /\ session_state' = run.session_state
    /\ screen' = run.screen
    /\ response_text' = run.response_text
    /\ summary_source' = IF run.summarized.t = "None"
                          THEN summary_source
                          ELSE run.summarized
    /\ uploaded_file' = file
    /\ user_api_key' = api_key
    /\ UNCHANGED harness_vars

Rerun(file, api_key, execute_btn, prompt, outcomes, qa_outcomes) ==
    Show(ScriptRun(session_state, file, api_key, execute_btn, prompt,
                   outcomes, qa_outcomes),
         file, api_key)

Init ==
    /\ doc = <<>>
    /\ extraction = NoValue
    /\ invocation = NoValue
    /\ DashboardIdle

EnterApiKey ==
    \E key \in ApiKeys :
        /\ key # user_api_key
        /\ Rerun(uploaded_file, key, FALSE, NoPrompt, NoOutcomes, NoOutcomes)

UploadFile ==
    \E file \in SessionFiles :
        /\ file # uploaded_file
        /\ Rerun(file, user_api_key, FALSE, NoPrompt, NoOutcomes, NoOutcomes)

RemoveFile ==
    /\ uploaded_file.present
    /\ Rerun(NoFile, user_api_key, FALSE, NoPrompt, NoOutcomes, NoOutcomes)

ClickExecute ==
    /\ screen.execute_button
    /\ \E outcomes \in SessionOutcomeSeqs :
           Rerun(uploaded_file, user_api_key, TRUE, NoPrompt, outcomes, NoOutcomes)

AskQuestion ==
    /\ screen.chat_input
    /\ Len(session_state.qa_history) < 2 * MaxTurns
    /\ \E qa_outcomes \in SessionAnswerSeqs :
           Rerun(uploaded_file, user_api_key, FALSE, Question, NoOutcomes, qa_outcomes)

Next == EnterApiKey \/ UploadFile \/ RemoveFile \/ ClickExecute \/ AskQuestion

Spec == Init /\ [][Next]_vars

(***************************************************************************)
(* Properties of the dashboard session and of response handling            *)
(***************************************************************************)
\* the last script run showed the stored summary without an exception
SummaryShown ==
    /\ "json_summary" \in DOMAIN session_state
    /\ Truthy(session_state.json_summary)
    /\ ~screen.crashed

\* the key points of the stored summary, in the order they are rendered
StoredKeyPoints ==
    KeyPointsOf(Items(DictGet(DictGet(session_state.json_summary, K_summary,
                                      PyDict(EmptyMap)),
                              K_sections, PyList(<<>>))))

\* the identifiers a key point cites
CitedIds(point) ==
    {Items(DictGet(point, K_source_ids, PyList(<<>>)))[i].v :
        i \in 1..Len(Items(DictGet(point, K_source_ids, PyList(<<>>))))}

\* the identifiers the rendered key point shows
ShownIds(rendered) == {rendered.refs[i].ref_id : i \in 1..Len(rendered.refs)}

\* C3: every identifier cited by a rendered key point is either valid (in
\* the Source Map, shown with its block text) or invalid; an invalid one is
\* flagged and still appears in the rendered output, never silently dropped,
\* and rendering does not fail because of it.
C3_CitationsAllShown ==
    SummaryShown =>
        /\ Len(screen.points) = Len(StoredKeyPoints)
        /\ \A k \in 1..Len(StoredKeyPoints) :
               /\ \A sid \in CitedIds(StoredKeyPoints[k]) :
                      sid \in ShownIds(screen.points[k])
               /\ \A i \in 1..Len(screen.points[k].refs) :
                      /\ screen.points[k].refs[i].ref_id \in DOMAIN session_state.source_map
                      /\ screen.points[k].refs[i].code
                             = session_state.source_map[screen.points[k].refs[i].ref_id]

\* the main block of the script ran through with the uploaded file
FileLoaded ==
    /\ uploaded_file.present
    /\ uploaded_file.parses
    /\ user_api_key # ""
    /\ ~screen.crashed

\* C4: whenever a new document is uploaded, the stored Tagged Text and Source
\* Map are rebuilt from it, so every later compression, citation lookup and
\* Q&A call uses those of the currently uploaded document.
C4_UploadRebuilds ==
    FileLoaded =>
        /\ session_state.tagged_text
               = extract_and_tag_pdf(uploaded_file.doc).tagged_text
        /\ session_state.source_map
               = extract_and_tag_pdf(uploaded_file.doc).source_map

\* a message or text that holds the given text
CarriesText(m, text) ==
    \/ m.t = "str" /\ m.v = text
    \/ m.t = "fstr" /\ \E i \in 1..Len(m.args) : m.args[i] = text

\* the text fails strict JSON parsing after the fences are stripped
Unparsable(text) == ~json_loads(StripCodeBlocks(text)).ok

\* the dashboard run of this step got an unparsable text from the LLM
DashboardUnparsable ==
    /\ response_text'.t = "str"
    /\ Unparsable(response_text'.v)

\* POST /api/process of this step got an unparsable text from the LLM
ServerUnparsable ==
    /\ invocation = NoValue
    /\ invocation' # NoValue
    /\ invocation'.fn = "server.process_document"
    /\ Len(invocation'.trace) = 1
    /\ invocation'.trace[1].outcome.ok
    /\ Unparsable(invocation'.trace[1].outcome.text)

\* C9: a compression response that fails strict JSON parsing after cleanup
\* (an empty one included) is signalled as a response-format error carrying
\* the raw response text, does not crash the caller, and no empty or default
\* Summary Tree is stored or returned in its place.
C9_UnparsableSignalled ==
    [][/\ DashboardUnparsable
          => /\ \E i \in 1..Len(screen'.notes) :
                    /\ screen'.notes[i].ev = "st.error"
                    /\ screen'.notes[i].msg = ParseFailedMsg
             /\ \E i \in 1..Len(screen'.notes) :
                    /\ screen'.notes[i].ev = "st.text"
                    /\ CarriesText(screen'.notes[i].msg, response_text'.v)
             /\ session_state'.json_summary = session_state.json_summary
       /\ ServerUnparsable
          => /\ ~invocation'.response.body.success
             /\ CarriesText(invocation'.response.body.error,
                            invocation'.trace[1].outcome.text)
      ]_vars

\* the fenced forms of the payloads that parse
FencedForms(payload) == {Wrapped(payload, language) : language \in {<<>>, JsonWord}}

Payloads == {r \in CompressionResponses : json_loads(r).ok}

\* the response has no fence at all
Unfenced(text) == ~Contains(text, Fence)

\* C10: a compression response that is a valid JSON payload inside a leading
\* and a trailing triple-backtick fence (with or without a language tag) is
\* stripped and parsed successfully on every compression path (dashboard and
\* POST /api/process); a response with no fence reaches the parser unchanged.
C10_FencesStripped ==
    /\ \A payload \in Payloads :
           /\ (response_text.t = "str" /\ response_text.v \in FencedForms(payload))
              => session_state.json_summary = json_loads(payload).val
           /\ (/\ Invoked
               /\ invocation.fn = "server.process_document"
               /\ Len(invocation.trace) = 1
               /\ invocation.trace[1].outcome.ok
               /\ invocation.trace[1].outcome.text \in FencedForms(payload))
              => /\ invocation.response.body.success
                 /\ invocation.response.body.data = json_loads(payload).val
    /\ (response_text.t = "str" /\ response_text.v # <<>> /\ Unfenced(response_text.v))
       => IF json_loads(response_text.v).ok
          THEN session_state.json_summary = json_loads(response_text.v).val
          ELSE \E i \in 1..Len(screen.notes) : screen.notes[i].msg = ParseFailedMsg

(***************************************************************************)
(* Properties of POST /api/chat and of the missing key                     *)
(***************************************************************************)
\* w has the form [[P<digits>_<digits>]]
IsIdentifier(w) ==
    /\ Len(w) >= 8
    /\ SubSeq(w, 1, 3) = <<"[", "[", "P">>
    /\ SubSeq(w, Len(w) - 1, Len(w)) = <<"]", "]">>
    /\ \E u \in 5..(Len(w) - 3) :
           /\ w[u] = "_"
           /\ \A j \in (4..(u - 1)) \cup ((u + 1)..(Len(w) - 2)) : w[j] \in DigitSet

\* where an identifier starts in s, and where that one ends
IdentifierStarts(s) ==
    {p \in 1..Len(s) : \E q \in p..Len(s) : IsIdentifier(SubSeq(s, p, q))}
IdentifierAt(s, p) ==
    SubSeq(s, p, CHOOSE q \in p..Len(s) : IsIdentifier(SubSeq(s, p, q)))

\* the identifiers found in s, in order of appearance
IdentifiersIn(s) ==
    [i \in 1..Cardinality(IdentifierStarts(s)) |->
        IdentifierAt(s, CHOOSE p \in IdentifierStarts(s) :
                            Cardinality({r \in IdentifierStarts(s) : r < p}) = i - 1)]

\* items separated by a comma and a blank
RECURSIVE CommaJoined(_)
CommaJoined(items) ==
    IF Len(items) = 0 THEN <<>>
    ELSE IF Len(items) = 1 THEN items[1]
    ELSE items[1] \o <<",", " ">> \o CommaJoined(Tail(items))

\* POST /api/chat was answered with a success response
ChatAnswered ==
    /\ Invoked
    /\ invocation.fn = "server.chat"
    /\ invocation.response.status = 200

\* the part of C11 about answers that cite at least one identifier
C11_CitedPart ==
    (ChatAnswered /\ IdentifierStarts(invocation.response.body.answer) # {})
    => invocation.response.body.evidence
           = PyStr(CommaJoined(IdentifiersIn(invocation.response.body.answer)))

\* C11: for every answer text the LLM returns to POST /api/chat, answers with
\* zero identifiers included, the evidence field of the success response is
\* exactly the comma-joined list of the identifiers found in the answer, in
\* order of appearance, and nothing else.
C11_EvidenceIsIdentifiers ==
    ChatAnswered
    => invocation.response.body.evidence
           = PyStr(CommaJoined(IdentifiersIn(invocation.response.body.answer)))

\* an LLM-calling operation was invoked with no key configured
KeylessCall == Invoked /\ invocation.api_key = ""

\* the request got as far as asking for the model
ReachesModel ==
    \/ /\ invocation.fn = "server.process_document"
       /\ invocation.file.present
       /\ invocation.file.filename # <<>>
       /\ invocation.file.parses
    \/ /\ invocation.fn = "server.chat"
       /\ invocation.request_data.question # <<>>
       /\ invocation.request_data.tagged_text # <<>>

\* the missing-credential failure as each operation surfaces it
MissingCredentialSurfaced ==
    /\ invocation.fn = "app.summarize_with_gemini"
       => /\ invocation.result = PyNone
          /\ invocation.trace = <<ErrorEvent(MissingKeyMsg)>>
    /\ invocation.fn = "app.answer_question"
       => invocation.result = QaMissingKeyMsg
    /\ (invocation.fn \in {"server.process_document", "server.chat"} /\ ReachesModel)
       => /\ invocation.response.status = 500
          /\ invocation.response.body = [success |-> FALSE, error |-> ServerMissingKeyMsg]

\* C12: with no API key configured, every LLM-calling operation
\* (summarize_with_gemini and answer_question of app.py, get_model as used by
\* /api/process and /api/chat) surfaces the missing-credential failure before
\* any LLM call: the invocation makes zero generate_content calls.
C12_NoCallWithoutKey ==
    KeylessCall
    => /\ Calls(invocation.trace) = 0
       /\ MissingCredentialSurfaced

\* /api/chat asked for the model without a key
C12_Witness ==
    /\ KeylessCall
    /\ invocation.fn = "server.chat"
    /\ ReachesModel
    /\ invocation.response.body.error = ServerMissingKeyMsg

(***************************************************************************)
(* Frame properties of the dashboard session                               *)
(***************************************************************************)
\* the session holds the Tagged Text and Source Map of a document
Built == "tagged_text" \in DOMAIN session_state

\* this step leaves the Tagged Text and the Source Map as they are
ExtractionKept ==
    /\ "tagged_text" \in DOMAIN session_state'
    /\ session_state'.tagged_text = session_state.tagged_text
    /\ session_state'.source_map = session_state.source_map

\* this step writes the Tagged Text or the Source Map
ExtractionWritten ==
    /\ "tagged_text" \in DOMAIN session_state'
    /\ IF Built THEN ~ExtractionKept ELSE TRUE

\* the script run of this step went through the upload handling (393-406)
UploadHandled ==
    /\ uploaded_file'.present
    /\ user_api_key' # ""
    /\ NeedsExtraction(WithHistory(session_state), uploaded_file')

\* a run started by the EXECUTE COMPRESSION button or by the chat input: of
\* the steps of Next, the ones that leave the sidebar's key and file alone
HandlerStep ==
    /\ vars' # vars
    /\ user_api_key' = user_api_key
    /\ uploaded_file' = uploaded_file

\* C13: once built for a document, the session's Source Map and Tagged Text
\* are left unchanged by every compression invocation (successful, failed or
\* unparsable) and by every Q&A turn; only a document upload step writes them.
C13_ExtractionImmutable ==
    [][/\ HandlerStep => (Built /\ ExtractionKept)
       /\ ExtractionWritten => UploadHandled
      ]_vars

\* a compression has stored a summary and a question has been answered
C13_Witness ==
    /\ Built
    /\ session_state.source_map # EmptyMap
    /\ Truthy(session_state.json_summary)
    /\ Len(session_state.qa_history) = 2

(***************************************************************************)
(* The form of the identifiers                                             *)
(***************************************************************************)
\* the decimal numeral of n
RECURSIVE Numeral(_)
Numeral(n) ==
    IF n < 10
    THEN <<<<"0">>, <<"1">>, <<"2">>, <<"3">>, <<"4">>,
           <<"5">>, <<"6">>, <<"7">>, <<"8">>, <<"9">>>>[n + 1]
    ELSE Numeral(n \div 10) \o Numeral(n % 10)

\* [[P{p}_{i}]]
Identifier(p, i) ==
    <<"[", "[", "P">> \o Numeral(p) \o <<"_">> \o Numeral(i) \o <<"]", "]">>

\* the surviving blocks in document order: page by page, by raw index
Precedes(a, b) == a[1] < b[1] \/ (a[1] = b[1] /\ a[2] < b[2])
SurvivorsInOrder(d) ==
    [k \in 1..Cardinality(SurvivingBlocks(d)) |->
        CHOOSE b \in SurvivingBlocks(d) :
            Cardinality({a \in SurvivingBlocks(d) : Precedes(a, b)}) = k - 1]

\* C14: the identifier minted for a surviving block is [[P{p}_{i}]], p the
\* 1-based number of its page and i its 0-based position in the original,
\* unfiltered block list of the page (discarded image and blank blocks
\* counted), not its position among the surviving blocks.
C14_RawIndexIdentifiers ==
    Extracted =>
        /\ Len(extraction.minted) = Cardinality(SurvivingBlocks(doc))
        /\ \A k \in 1..Len(extraction.minted) :
               LET b == SurvivorsInOrder(doc)[k] IN
               /\ extraction.minted[k].tag = Identifier(b[1], b[2])
               /\ extraction.minted[k].text = Strip(doc[b[1]][b[2] + 1].text)
               /\ extraction.source_map[Identifier(b[1], b[2])]
                      = Strip(doc[b[1]][b[2] + 1].text)
        /\ DOMAIN extraction.source_map
               = {Identifier(b[1], b[2]) : b \in SurvivingBlocks(doc)}

\* a block on the second page survived after a discarded block of its page
C14_Witness ==
    /\ Extracted
    /\ \E b \in SurvivingBlocks(doc) :
           /\ b[1] = 2
           /\ b[2] > 0
           /\ ~Survives(doc[2][1])
           /\ Identifier(b[1], b[2]) \in DOMAIN extraction.source_map

(***************************************************************************)
(* The backoff waits                                                       *)
(***************************************************************************)
\* the sleeps of a trace, in order
Waits(trace) == SelectSeq(trace, LAMBDA e : e.ev = "sleep")

\* the attempt number of the last generate_content call before position j
AttemptBefore(trace, j) ==
    trace[CHOOSE i \in EventsOf(trace, "generate_content") :
              /\ i < j
              /\ \A l \in EventsOf(trace, "generate_content") : l < j => l <= i].attempt

\* C15: in summarize_with_gemini and answer_question of app.py the wait after
\* the k-th rate-limited attempt (k from 0) is base_delay * 2^k seconds, with
\* base_delay 5 for compression and 10 for Q&A: successive waits of one
\* invocation double (5 then 10; 10 then 20), and there are at most 2 waits.
C15_BackoffDoubles ==
    (Invoked /\ invocation.fn \in AppFns) =>
        LET base == IF invocation.fn = "app.summarize_with_gemini" THEN 5 ELSE 10
            waits == Waits(invocation.trace)
        IN  /\ Len(waits) <= 2
            /\ \A k \in 1..Len(waits) : waits[k].secs = base * 2^(k - 1)
            /\ \A k \in 2..Len(waits) : waits[k].secs = 2 * waits[k - 1].secs
            /\ \A j \in EventsOf(invocation.trace, "sleep") :
                   /\ \E i \in EventsOf(invocation.trace, "generate_content") : i < j
                   /\ invocation.trace[j].secs
                          = base * 2^AttemptBefore(invocation.trace, j)

\* answer_question was rate limited on every attempt and waited twice
C15_Witness ==
    /\ AppCall
    /\ invocation.fn = "app.answer_question"
    /\ RateLimitedFor(invocation.outcomes, qa_max_retries)
    /\ Len(Waits(invocation.trace)) = 2

(***************************************************************************)
(* The session invariant                                                   *)
(***************************************************************************)
\* tagged_text, source_map and last_uploaded are those of one extraction
SameExtraction ==
    Built =>
        \E f \in SessionFiles :
            /\ f.parses
            /\ session_state.last_uploaded = f.filename
            /\ session_state.tagged_text = extract_and_tag_pdf(f.doc).tagged_text
            /\ session_state.source_map = extract_and_tag_pdf(f.doc).source_map

\* a stored summary was produced from the stored tagged text
SummaryOfStoredText ==
    (Built /\ session_state.json_summary.t # "None")
    => summary_source = PyStr(session_state.tagged_text)

\* this step replaces the stored extraction
ExtractionReplaced ==
    \/ ExtractionWritten
    \/ /\ Built
       /\ session_state'.last_uploaded # session_state.last_uploaded

\* C16: after any sequence of uploads, compression runs and Q&A turns the
\* stored tagged_text, source_map and last_uploaded come from one and the same
\* extraction, a non-null json_summary was produced from the stored
\* tagged_text, and the step that replaces tagged_text and source_map also
\* resets json_summary to None and empties qa_history.
C16_SessionConsistent ==
    /\ [](SameExtraction /\ SummaryOfStoredText)
    /\ [][ExtractionReplaced
          => /\ session_state'.json_summary = PyNone
             /\ session_state'.qa_history = <<>>]_vars

\* a summary of the second file's text is stored and a question was answered
C16_Witness ==
    /\ Built
    /\ session_state.last_uploaded = OtherName
    /\ session_state.json_summary.t = "dict"
    /\ summary_source = PyStr(session_state.tagged_text)
    /\ session_state.qa_history # <<>>

====
